---- MODULE Spec2Model ----
(***************************************************************************)
(* Model of TM_3.0/cosmos_3.0.py: a straight-line script that loads a      *)
(* photo and a template, runs cv2.matchTemplate with TM_CCOEFF_NORMED,     *)
(* keeps every placement whose score is >= threshold, draws one rectangle  *)
(* per kept placement, resizes the photo and writes it.                    *)
(*                                                                         *)
(* One action per statement of the script; pc names the line about to run. *)
(* The library calls are operators that compute what the library computes. *)
(* Scores are exact reals: a score is the pair <<n, d>> standing for       *)
(* n / sqrt(d), d > 0, so comparisons with a threshold are exact.          *)
(***************************************************************************)
EXTENDS Integers, Sequences, FiniteSets, TLC

VARIABLES
    pc,         \* the line of the script about to run, "done" or "failed"
    imgFile,    \* what the file 'ww2.jpg' decodes to (None: unreadable)
    tplFile,    \* what the file 'Waldo.png' decodes to (None: unreadable)
    threshold,  \* the similarity threshold, a rational <<tn, td>>
    window,     \* TRUE once the "Detected" window exists
    img_rgb,    \* None, or <<pixels, rectangles drawn on them>>
    img_gray,   \* None, or the grayscale grid
    template,   \* None, or the template's grayscale grid
    w, h,       \* template width and height (0 before line 32)
    res,        \* None, or the Score Map
    loc,        \* the tuple np.where returned: <<row indexes, column indexes>>
    it,         \* how many points the loop of line 44 has consumed
    detections, \* the list the loop appends to
    console,    \* what was printed
    imS,        \* None, or the resized image
    outFile     \* None, or the content of 'Detections.png'

vars == <<pc, imgFile, tplFile, threshold, window, img_rgb, img_gray, template,
          w, h, res, loc, it, detections, console, imS, outFile>>

---------------------------------------------------------------------------
(* Bounds of the model: the largest number of pixels of a decoded photo   *)
(* and of a decoded template; every shape within the area is drawn.      *)
MaxImgArea == 6
MaxTplArea == 3

(* Python's None; every value that may be None is otherwise a non-empty tuple. *)
None == <<>>

(* BGR pixels a decoded photo may hold, and gray levels a template may hold. *)
Palette == {<<0, 0, 0>>, <<3, 2, 1>>}
GrayLevels == {0, 2}

(* A grid is a sequence of rows (numpy shape (rows, cols)); pixel (x, y), *)
(* 0-based as in the script, is g[y + 1][x + 1].                           *)
Shapes(maxArea) ==
    {s \in (1..maxArea) \X (1..maxArea) : s[1] * s[2] <= maxArea}

Grids(maxArea, vals) ==
    UNION {[1..s[2] -> [1..s[1] -> vals]] : s \in Shapes(maxArea)}

Rows(g) == Len(g)
Cols(g) == Len(g[1])

(* The thresholds a run may be configured with; <<3, 10>> is the script's 0.30. *)
Thresholds == {<<-1, 2>>, <<0, 1>>, <<3, 10>>, <<99, 100>>}

(* The fixed size of the written image. *)
ResizeW == 1000
ResizeH == 960

---------------------------------------------------------------------------
(* Arithmetic helpers. *)
RECURSIVE SumSeq(_)
SumSeq(s) == IF s = <<>> THEN 0 ELSE Head(s) + SumSeq(Tail(s))

Dot(a, b) == SumSeq([k \in DOMAIN a |-> a[k] * b[k]])

(* The tw x th window of grid g anchored at (x, y), flattened row by row. *)
Patch(g, x, y, tw, th) ==
    [k \in 1..(tw * th) |-> g[y + ((k - 1) \div tw) + 1][x + ((k - 1) % tw) + 1]]

---------------------------------------------------------------------------
(* cv2.imread: the decoded file, or None when it cannot be read or decoded *)
(* (imread reports failure by returning None, it does not raise).          *)
imread(file) == file

(* cv2.cvtColor(.., COLOR_BGR2GRAY) on 8-bit pixels: the fixed-point       *)
(* luma (B*1868 + G*9617 + R*4899 + 2^13) >> 14 of every pixel.            *)
Gray(c) == (c[1] * 1868 + c[2] * 9617 + c[3] * 4899 + 8192) \div 16384

cvtColor(px) == [r \in 1..Rows(px) |-> [c \in 1..Cols(px) |-> Gray(px[r][c])]]

(* cv2.matchTemplate raises when one grid is smaller in one axis and       *)
(* larger in the other; when the image is the smaller one in an axis and   *)
(* no larger in the other, the library swaps the two grids and goes on.    *)
needswap(image, templ) ==
    Rows(image) < Rows(templ) \/ Cols(image) < Cols(templ)

matchTemplateRaises(image, templ) ==
    /\ needswap(image, templ)
    /\ ~(Rows(image) <= Rows(templ) /\ Cols(image) <= Cols(templ))

(* TM_CCOEFF_NORMED of template T against window P (both flattened, same   *)
(* length n), for a template that is not flat. With the sums scaled by n:  *)
(*   num = n*sum(T*P) - sum(T)*sum(P)                                      *)
(*   A   = n*sum(T*T) - sum(T)^2   (n^2 * variance of T)                   *)
(*   B   = n*sum(P*P) - sum(P)^2   (n^2 * variance of P)                   *)
(* the score is num / sqrt(A*B); a flat window (B = 0) scores 0, and a     *)
(* score of magnitude 1 is stored as exactly 1 or -1.                      *)
ccoeffNormed(T, P) ==
    LET n   == Len(T)
        num == n * Dot(T, P) - SumSeq(T) * SumSeq(P)
        A   == n * Dot(T, T) - SumSeq(T) * SumSeq(T)
        B   == n * Dot(P, P) - SumSeq(P) * SumSeq(P)
    IN  IF B = 0 THEN <<0, 1>>
        ELSE IF num * num = A * B THEN (IF num > 0 THEN <<1, 1>> ELSE <<-1, 1>>)
        ELSE <<num, A * B>>

(* Variant for C4: a template without variance scored 0, as a flat window is. *)
flatTemplateScoreZero == <<0, 1>>

(* A template without variance makes the whole Score Map 1. *)
flatTemplateScore == <<1, 1>>

isFlat(T) == Len(T) * Dot(T, T) - SumSeq(T) * SumSeq(T) = 0

(* cv2.matchTemplate(image, templ, TM_CCOEFF_NORMED), for grids it does    *)
(* not raise on: one score per placement of the smaller grid on the larger.*)
matchTemplate(image, templ) ==
    LET I  == IF needswap(image, templ) THEN templ ELSE image
        T  == IF needswap(image, templ) THEN image ELSE templ
        tw == Cols(T)
        th == Rows(T)
        TT == Patch(T, 0, 0, tw, th)
    IN  [r \in 1..(Rows(I) - th + 1) |->
            [c \in 1..(Cols(I) - tw + 1) |->
                IF isFlat(TT) THEN flatTemplateScore
                ELSE ccoeffNormed(TT, Patch(I, c - 1, r - 1, tw, th))]]

(* Variant for C3: both sides squared without regard to their signs. *)
GEMagnitude(s, thr) == s[1] * s[1] * thr[2] * thr[2] >= thr[1] * thr[1] * s[2]

(* score >= thr for a score <<n, d>> = n/sqrt(d) and a rational thr = tn/td. *)
GE(s, thr) ==
    LET n  == s[1]
        d  == s[2]
        tn == thr[1]
        td == thr[2]
    IN  IF tn >= 0
        THEN n >= 0 /\ n * n * td * td >= tn * tn * d
        ELSE n >= 0 \/ n * n * td * td <= tn * tn * d

(* Variant for C2: the comparison res > thr, which drops the cells equal   *)
(* to the threshold.                                                       *)
whereStrict(r, thr) ==
    LET nc    == Cols(r)
        cells == [k \in 1..(Rows(r) * nc) |-> <<(k - 1) \div nc, (k - 1) % nc>>]
        hits  == SelectSeq(cells, LAMBDA c :
                     ~GE(<<-r[c[1] + 1][c[2] + 1][1], r[c[1] + 1][c[2] + 1][2]>>,
                         <<-thr[1], thr[2]>>))
    IN  <<[k \in 1..Len(hits) |-> hits[k][1]], [k \in 1..Len(hits) |-> hits[k][2]]>>

(* Variant for C9: the cells visited column by column (Fortran order). *)
whereColumnMajor(r, thr) ==
    LET nr    == Rows(r)
        cells == [k \in 1..(nr * Cols(r)) |-> <<(k - 1) % nr, (k - 1) \div nr>>]
        hits  == SelectSeq(cells, LAMBDA c : GE(r[c[1] + 1][c[2] + 1], thr))
    IN  <<[k \in 1..Len(hits) |-> hits[k][1]], [k \in 1..Len(hits) |-> hits[k][2]]>>

(* np.where(res >= thr): the indexes of the cells that pass, in row-major  *)
(* (C) order, as the tuple <<row indexes, column indexes>>, 0-based.       *)
where(r, thr) ==
    LET nc    == Cols(r)
        cells == [k \in 1..(Rows(r) * nc) |-> <<(k - 1) \div nc, (k - 1) % nc>>]
        hits  == SelectSeq(cells, LAMBDA c : GE(r[c[1] + 1][c[2] + 1], thr))
    IN  <<[k \in 1..Len(hits) |-> hits[k][1]], [k \in 1..Len(hits) |-> hits[k][2]]>>

(* Variant for C6: an emptiness test on the index arrays inside the tuple. *)
PyNotContents(t) == Len(t) = 0 \/ Len(t[1]) = 0

(* Python's "not x" on a tuple: true only for the empty tuple. *)
PyNot(t) == Len(t) = 0

(* t[::-1] on a tuple. *)
Reversed(t) == [k \in 1..Len(t) |-> t[Len(t) - k + 1]]

(* zip over the two index arrays of a tuple: the pairs, in order. *)
zip(t) ==
    LET n == IF Len(t[1]) < Len(t[2]) THEN Len(t[1]) ELSE Len(t[2])
    IN  [k \in 1..n |-> <<t[1][k], t[2][k]>>]

(* Variant for C1: the tuple zipped without reversing it, giving (row, column). *)
PointsUnreversed(l) == zip(l)

(* The points the loop of line 44 iterates over, each (x, y). *)
Points(l) == zip(Reversed(l))

(* Variant for C7: the rectangle replaces the ones drawn before it. *)
rectangleOverwrite(img, pt1, pt2) ==
    <<img[1], <<<<pt1, pt2, <<255, 255, 255>>, 2>>>>>>

(* cv2.rectangle(img, pt1, pt2, (255,255,255), 2): one more rectangle on img. *)
rectangle(img, pt1, pt2) ==
    <<img[1], Append(img[2], <<pt1, pt2, <<255, 255, 255>>, 2>>)>>

(* cv2.resize(img, (1000, 960)): the same picture on a 1000 x 960 canvas. *)
resize(img, width, height) == <<width, height, img>>

---------------------------------------------------------------------------
Init ==
    /\ pc = "L11"
    /\ imgFile \in Grids(MaxImgArea, Palette) \cup {None}
    /\ tplFile \in Grids(MaxTplArea, GrayLevels) \cup {None}
    /\ threshold \in Thresholds
    /\ window = FALSE
    /\ img_rgb = None
    /\ img_gray = None
    /\ template = None
    /\ w = 0
    /\ h = 0
    /\ res = None
    /\ loc = None
    /\ it = 0
    /\ detections = <<>>
    /\ console = <<>>
    /\ imS = None
    /\ outFile = None

(* line 11: cv2.namedWindow("Detected", cv2.WINDOW_NORMAL) *)
NamedWindow ==
    /\ pc = "L11"
    /\ window' = TRUE
    /\ pc' = "L27"
    /\ UNCHANGED <<imgFile, tplFile, threshold, img_rgb, img_gray, template,
                   w, h, res, loc, it, detections, console, imS, outFile>>

(* line 27: img_rgb = cv2.imread(Data) *)
ReadImage ==
    /\ pc = "L27"
    /\ img_rgb' = IF imread(imgFile) = None THEN None ELSE <<imread(imgFile), <<>>>>
    /\ pc' = "L28"
    /\ UNCHANGED <<imgFile, tplFile, threshold, window, img_gray, template,
                   w, h, res, loc, it, detections, console, imS, outFile>>

(* line 28: img_gray = cv2.cvtColor(img_rgb, cv2.COLOR_BGR2GRAY); raises on None *)
ToGray ==
    /\ pc = "L28"
    /\ IF img_rgb = None
       THEN pc' = "failed" /\ UNCHANGED img_gray
       ELSE pc' = "L29" /\ img_gray' = cvtColor(img_rgb[1])
    /\ UNCHANGED <<imgFile, tplFile, threshold, window, img_rgb, template,
                   w, h, res, loc, it, detections, console, imS, outFile>>

(* line 29: template = cv2.imread(template, 0) *)
ReadTemplate ==
    /\ pc = "L29"
    /\ template' = imread(tplFile)
    /\ pc' = "L32"
    /\ UNCHANGED <<imgFile, tplFile, threshold, window, img_rgb, img_gray,
                   w, h, res, loc, it, detections, console, imS, outFile>>

(* Variant for C8: a template that failed to load is let through. *)
ShapeNoCheck ==
    /\ pc = "L32"
    /\ w' = IF template = None THEN 0 ELSE Cols(template)
    /\ h' = IF template = None THEN 0 ELSE Rows(template)
    /\ console' = console
    /\ pc' = "L36"
    /\ UNCHANGED <<imgFile, tplFile, threshold, window, img_rgb, img_gray, template,
                   res, loc, it, detections, imS, outFile>>

(* lines 32-33: w, h = template.shape[::-1]; print the dimensions.         *)
(* None has no attribute shape: the statement raises.                      *)
Shape ==
    /\ pc = "L32"
    /\ IF template = None
       THEN pc' = "failed" /\ UNCHANGED <<w, h, console>>
       ELSE /\ w' = Cols(template)
            /\ h' = Rows(template)
            /\ console' = Append(console, <<"dims", Cols(template), Rows(template)>>)
            /\ pc' = "L36"
    /\ UNCHANGED <<imgFile, tplFile, threshold, window, img_rgb, img_gray, template,
                   res, loc, it, detections, imS, outFile>>

(* line 36: res = cv2.matchTemplate(img_gray, template, method) *)
Match ==
    /\ pc = "L36"
    /\ IF matchTemplateRaises(img_gray, template)
       THEN pc' = "failed" /\ UNCHANGED res
       ELSE pc' = "L38" /\ res' = matchTemplate(img_gray, template)
    /\ UNCHANGED <<imgFile, tplFile, threshold, window, img_rgb, img_gray, template,
                   w, h, loc, it, detections, console, imS, outFile>>

(* line 38: loc = np.where(res >= threshold) *)
Where ==
    /\ pc = "L38"
    /\ loc' = where(res, threshold)
    /\ pc' = "L40"
    /\ UNCHANGED <<imgFile, tplFile, threshold, window, img_rgb, img_gray, template,
                   w, h, res, it, detections, console, imS, outFile>>

(* lines 40-43: if not loc: print(...); detections = [] *)
Guard ==
    /\ pc = "L40"
    /\ console' = IF PyNot(loc) THEN Append(console, <<"sorry", 0, 0>>) ELSE console
    /\ detections' = <<>>
    /\ it' = 0
    /\ pc' = "L44"
    /\ UNCHANGED <<imgFile, tplFile, threshold, window, img_rgb, img_gray, template,
                   w, h, res, loc, imS, outFile>>

(* lines 44-46, one iteration: draw the rectangle of the next point, append it *)
Annotate ==
    /\ pc = "L44"
    /\ it < Len(Points(loc))
    /\ LET pt == Points(loc)[it + 1]
       IN  /\ img_rgb' = rectangle(img_rgb, pt, <<pt[1] + w, pt[2] + h>>)
           /\ detections' = Append(detections, pt)
    /\ it' = it + 1
    /\ UNCHANGED <<pc, imgFile, tplFile, threshold, window, img_gray, template,
                   w, h, res, loc, console, imS, outFile>>

(* lines 44, 48-49: the iterator is exhausted; detections = np.asarray(..); *)
(* print detections.shape[0]                                                *)
Count ==
    /\ pc = "L44"
    /\ it = Len(Points(loc))
    /\ console' = Append(console, <<"count", Len(detections), 0>>)
    /\ pc' = "L52"
    /\ UNCHANGED <<imgFile, tplFile, threshold, window, img_rgb, img_gray, template,
                   w, h, res, loc, it, detections, imS, outFile>>

(* line 52: imS = cv2.resize(img_rgb, (1000, 960)) *)
Resize ==
    /\ pc = "L52"
    /\ imS' = resize(img_rgb, ResizeW, ResizeH)
    /\ pc' = "L53"
    /\ UNCHANGED <<imgFile, tplFile, threshold, window, img_rgb, img_gray, template,
                   w, h, res, loc, it, detections, console, outFile>>

(* line 53: cv2.imwrite(out, imS); the output path is taken to be writable *)
Write ==
    /\ pc = "L53"
    /\ outFile' = imS
    /\ pc' = "done"
    /\ UNCHANGED <<imgFile, tplFile, threshold, window, img_rgb, img_gray, template,
                   w, h, res, loc, it, detections, console, imS>>

Next ==
    \/ NamedWindow
    \/ ReadImage
    \/ ToGray
    \/ ReadTemplate
    \/ Shape
    \/ Match
    \/ Where
    \/ Guard
    \/ Annotate
    \/ Count
    \/ Resize
    \/ Write

Spec == Init /\ [][Next]_vars

---------------------------------------------------------------------------
(* Definitions shared by the properties below. *)

(* The template is no larger than the image in either axis. *)
TemplateFits ==
    /\ img_gray # None
    /\ template # None
    /\ Cols(template) <= Cols(img_gray)
    /\ Rows(template) <= Rows(img_gray)

(* The statements after the loop of line 44. *)
AfterLoop == {"L52", "L53", "done"}

(* The placements of the Score Map, each (x, y), and those that pass. *)
Placements == {p \in (0..(Cols(res) - 1)) \X (0..(Rows(res) - 1)) : TRUE}
Passing(thr) == {p \in Placements : GE(res[p[2] + 1][p[1] + 1], thr)}

(* How often e occurs in the sequence s. *)
Times(s, e) == Cardinality({k \in 1..Len(s) : s[k] = e})

(* a <= b for two rationals with positive denominators. *)
LeqThr(a, b) == a[1] * b[2] <= b[1] * a[2]

(* How many Detections matching the Score Map at threshold thr reports. *)
NumDetections(thr) == Len(Points(where(res, thr)))

(* The rectangles drawn so far. *)
Drawn == IF img_rgb = None THEN <<>> ELSE img_rgb[2]

---------------------------------------------------------------------------
(* C1: when the template is no larger than the image in either axis, every *)
(* Detection (x, y) the match-and-threshold step reports has               *)
(* 0 <= x <= W_img - w and 0 <= y <= H_img - h, and the Score Map value at *)
(* (x, y) is >= threshold; the list the loop builds holds only such points.*)
C1_DetectionsInBounds ==
    (loc # None /\ TemplateFits) =>
        LET pts == Points(loc)
        IN  /\ \A k \in 1..Len(pts) :
                  /\ 0 <= pts[k][1] /\ pts[k][1] <= Cols(img_gray) - w
                  /\ 0 <= pts[k][2] /\ pts[k][2] <= Rows(img_gray) - h
                  /\ GE(res[pts[k][2] + 1][pts[k][1] + 1], threshold)
            /\ Len(detections) <= Len(pts)
            /\ \A k \in 1..Len(detections) : detections[k] = pts[k]

(* C1 witness: a finished run whose template has variance, with a          *)
(* Detection on the last row of the Score Map, below the first row, while  *)
(* some placement is not a Detection.                                      *)
C1_Witness ==
    /\ pc = "done"
    /\ TemplateFits
    /\ ~isFlat(Patch(template, 0, 0, w, h))
    /\ Rows(img_gray) - h > 0
    /\ \E k \in 1..Len(detections) : detections[k][2] = Rows(img_gray) - h
    /\ Len(detections) < Cardinality(Placements)

(* C2: every placement of the Score Map whose score is >= threshold is     *)
(* reported exactly once, every other placement never, adjacent and        *)
(* overlapping placements included, so the number of Detections is the     *)
(* number of Score Map cells with score >= threshold.                      *)
C2_CompleteUnsuppressed ==
    loc # None =>
        LET pts  == Points(loc)
            pass == Passing(threshold)
        IN  /\ \A p \in Placements : Times(pts, p) = IF p \in pass THEN 1 ELSE 0
            /\ Len(pts) = Cardinality(pass)
            /\ pc \in AfterLoop => detections = pts

(* C2 witness: a finished run with two Detections whose template           *)
(* placements overlap, and a placement that is not a Detection.            *)
C2_Witness ==
    /\ pc = "done"
    /\ TemplateFits
    /\ \E i \in 1..Len(detections), j \in 1..Len(detections) :
          /\ i # j
          /\ detections[i][1] - detections[j][1] \in (1 - w)..(w - 1)
          /\ detections[i][2] - detections[j][2] \in (1 - h)..(h - 1)
    /\ Len(detections) < Cardinality(Placements)

(* C3: for a fixed image and template and thresholds t1 <= t2, the number  *)
(* of Detections at t2 is no greater than the number at t1; the run's own  *)
(* Detections are those of its threshold.                                  *)
C3_ThresholdMonotone ==
    pc = "L40" =>
        LET num == [t \in Thresholds |-> NumDetections(t)]
        IN  /\ Len(Points(loc)) = num[threshold]
            /\ \A t1 \in Thresholds, t2 \in Thresholds :
                  LeqThr(t1, t2) => num[t2] <= num[t1]

(* C3 witness: a Score Map on which each higher threshold of the set       *)
(* strictly loses Detections and the highest still keeps one.              *)
C3_Witness ==
    /\ pc = "L40"
    /\ NumDetections(<<99, 100>>) > 0
    /\ NumDetections(<<3, 10>>) > NumDetections(<<99, 100>>)
    /\ NumDetections(<<0, 1>>) > NumDetections(<<3, 10>>)
    /\ NumDetections(<<-1, 2>>) > NumDetections(<<0, 1>>)

---------------------------------------------------------------------------
(* The exact match scenario at the model's scale: the image is a block of  *)
(* the template's size and of one constant non-zero intensity at offset    *)
(* (bx, by) on a background of intensity 0 that is larger than the block,  *)
(* the template is a block of the same constant, the threshold is 0.99.    *)
ExactMatchScenario(bx, by) ==
    /\ threshold = <<99, 100>>
    /\ TemplateFits
    /\ Cols(template) * Rows(template) < Cols(img_gray) * Rows(img_gray)
    /\ bx \in 0..(Cols(img_gray) - Cols(template))
    /\ by \in 0..(Rows(img_gray) - Rows(template))
    /\ \A r \in 1..Rows(template), c \in 1..Cols(template) : template[r][c] = 2
    /\ \A r \in 1..Rows(img_gray), c \in 1..Cols(img_gray) :
          img_gray[r][c] =
              IF /\ c - 1 \in bx..(bx + Cols(template) - 1)
                 /\ r - 1 \in by..(by + Rows(template) - 1)
              THEN 2 ELSE 0

Offsets == (0..(MaxImgArea + 1)) \X (0..(MaxImgArea + 1))

(* A score within 1e-3 of 1.0. *)
Near1(s) == GE(s, <<999, 1000>>) /\ GE(<<-s[1], s[2]>>, <<-1001, 1000>>)

(* The score of the written definition: the normalized correlation         *)
(* coefficient, taken as 0 when either variance term is zero.              *)
DefinitionScore(I, T, x, y) ==
    LET TT == Patch(T, 0, 0, Cols(T), Rows(T))
        P  == Patch(I, x, y, Cols(T), Rows(T))
    IN  IF isFlat(TT) \/ isFlat(P) THEN <<0, 1>> ELSE ccoeffNormed(TT, P)

(* C4 as stated: in the exact match scenario a Detection is reported at    *)
(* the block's offset and the score there, computed by the definition with *)
(* its rule that a zero-variance term gives 0, is within 1e-3 of 1.0.      *)
C4_AsStated ==
    pc = "done" => \A o \in Offsets :
        ExactMatchScenario(o[1], o[2]) =>
            /\ Times(detections, o) >= 1
            /\ Near1(DefinitionScore(img_gray, template, o[1], o[2]))

(* C4 amended: in the exact match scenario a Detection is reported at the  *)
(* block's offset and the Score Map value there is within 1e-3 of 1.0,     *)
(* the Score Map being the one the code computes: it is 1 at every         *)
(* placement of a template without variance, not 0.                        *)
C4_ExactMatch ==
    pc = "done" => \A o \in Offsets :
        ExactMatchScenario(o[1], o[2]) =>
            /\ Times(detections, o) >= 1
            /\ Near1(res[o[2] + 1][o[1] + 1])
            /\ \A p \in Placements : res[p[2] + 1][p[1] + 1] = <<1, 1>>

(* C4 witness: a finished run of the exact match scenario with the block   *)
(* away from the image's origin.                                           *)
C4_Witness ==
    /\ pc = "done"
    /\ \E o \in Offsets : ExactMatchScenario(o[1], o[2]) /\ o[1] > 0

---------------------------------------------------------------------------
(* C5: when the template is larger than the image in either axis, the     *)
(* match fails, no Score Map is produced, no Detection is reported, and    *)
(* the run never reaches annotate, resize or save.                         *)
C5_DimensionRejection ==
    (/\ img_gray # None
     /\ template # None
     /\ (Cols(template) > Cols(img_gray) \/ Rows(template) > Rows(img_gray))
     /\ pc \notin {"L32", "L36"}) =>
        /\ pc = "failed"
        /\ res = None
        /\ loc = None
        /\ detections = <<>>
        /\ Drawn = <<>>
        /\ imS = None
        /\ outFile = None

(* C6: the "no matches" message is never printed, a run that reached the   *)
(* guard never fails afterwards, and a finished run with zero Detections   *)
(* has resized and written the image with no rectangle on it.              *)
C6_GuardIneffective ==
    /\ \A k \in 1..Len(console) : console[k][1] # "sorry"
    /\ pc = "L40" => ~PyNot(loc)
    /\ loc # None => pc # "failed"
    /\ (pc = "done" /\ Len(detections) = 0) =>
          /\ imS = <<ResizeW, ResizeH, <<imgFile, <<>>>>>>
          /\ outFile = imS

(* C6 witness: a finished run with zero Detections and the file written. *)
C6_Witness ==
    /\ pc = "done"
    /\ Len(Points(loc)) = 0
    /\ Len(detections) = 0
    /\ outFile # None

---------------------------------------------------------------------------
(* The position of a statement in the pipeline. *)
Rank(p) ==
    CASE p = "L11" -> 0
      [] p = "L27" -> 1
      [] p = "L28" -> 2
      [] p = "L29" -> 3
      [] p = "L32" -> 4
      [] p = "L36" -> 5
      [] p = "L38" -> 6
      [] p = "L40" -> 7
      [] p = "L44" -> 8
      [] p = "L52" -> 9
      [] p = "L53" -> 10
      [] p = "done" -> 11
      [] p = "failed" -> 12

C7_Step ==
    /\ pc' # pc => (pc' = "failed" \/ Rank(pc') = Rank(pc) + 1)
    /\ img_gray' # img_gray => (pc = "L28" /\ img_gray = None)
    /\ res' # res => (pc = "L36" /\ res = None /\ Drawn = <<>>)
    /\ loc' # loc => (pc = "L38" /\ loc = None /\ res # None /\ Drawn = <<>>)
    /\ Drawn' # Drawn =>
          /\ pc = "L44"
          /\ res # None /\ loc # None /\ imS = None /\ outFile = None
          /\ Len(Drawn') = Len(Drawn) + 1
          /\ detections' = Append(detections, Drawn'[Len(Drawn')][1])
    /\ imS' # imS =>
          /\ pc = "L52" /\ imS = None /\ outFile = None
          /\ Len(Drawn) = Len(Points(loc))
          /\ imS'[1] = 1000 /\ imS'[2] = 960 /\ imS'[3] = img_rgb
    /\ outFile' # outFile =>
          /\ pc = "L53" /\ outFile = None
          /\ outFile' = <<1000, 960, img_rgb>>
          /\ UNCHANGED <<img_rgb, detections>>

C7_Done ==
    pc = "done" =>
        /\ outFile = <<1000, 960, img_rgb>>
        /\ Len(Drawn) = Len(detections)
        /\ Len(detections) = Len(Points(loc))
        /\ \A k \in 1..Len(detections) : Drawn[k][1] = detections[k]
        /\ console[Len(console)] = <<"count", Len(detections), 0>>

(* C7: the statements run in the fixed order load, match, threshold,       *)
(* annotate, resize, save, each at most once: the Score Map is computed    *)
(* before any rectangle is drawn, the file is written once, after every    *)
(* rectangle is drawn and the image is resized to 1000 x 960, and a        *)
(* finished run has drawn one rectangle per Detection on the written       *)
(* image, the printed count being that number.                             *)
C7_PipelineOrder == []C7_Done /\ [][C7_Step]_vars

(* C7 witness: a finished run that drew at least two rectangles. *)
C7_Witness ==
    /\ pc = "done"
    /\ outFile # None
    /\ Len(outFile[3][2]) >= 2

---------------------------------------------------------------------------
(* C8: when the image or the template cannot be read or decoded the run    *)
(* stops before the match, imread is not run again, and no Score Map,      *)
(* Detection, rectangle, resized image or output file exists.              *)
C8_LoadFailuresFatal ==
    /\ imgFile = None => pc \in {"L11", "L27", "L28", "failed"}
    /\ tplFile = None => pc \in {"L11", "L27", "L28", "L29", "L32", "failed"}
    /\ (imgFile = None \/ tplFile = None) =>
          /\ res = None
          /\ loc = None
          /\ detections = <<>>
          /\ Drawn = <<>>
          /\ console = <<>>
          /\ imS = None
          /\ outFile = None

(* C8 witness: the run failed on an unreadable template after the image    *)
(* was read and converted.                                                 *)
C8_Witness ==
    /\ pc = "failed"
    /\ tplFile = None
    /\ img_gray # None

---------------------------------------------------------------------------
(* C9: the Detections are in the scan order of the Score Map, rows top to  *)
(* bottom and columns left to right within a row, each given as (x, y):    *)
(* consecutive Detections (x1, y1), (x2, y2) have y1 < y2, or y1 = y2 and  *)
(* x1 < x2, so no pair repeats; the loop appends and draws in that order.  *)
C9_ScanOrder ==
    loc # None =>
        LET pts == Points(loc)
        IN  /\ \A k \in 1..Len(pts) :
                  /\ pts[k][1] \in 0..(Cols(res) - 1)
                  /\ pts[k][2] \in 0..(Rows(res) - 1)
                  /\ GE(res[pts[k][2] + 1][pts[k][1] + 1], threshold)
            /\ \A k \in 1..(Len(pts) - 1) :
                  \/ pts[k][2] < pts[k + 1][2]
                  \/ pts[k][2] = pts[k + 1][2] /\ pts[k][1] < pts[k + 1][1]
            /\ Len(detections) = Len(Drawn)
            /\ Len(detections) <= Len(pts)
            /\ \A k \in 1..Len(detections) :
                  detections[k] = pts[k] /\ Drawn[k][1] = detections[k]

(* C9 witness: a finished run whose template has variance, with two        *)
(* Detections in one row, a Detection in a later row to the left of an     *)
(* earlier one, and a placement that is not a Detection.                   *)
C9_Witness ==
    /\ pc = "done"
    /\ TemplateFits
    /\ ~isFlat(Patch(template, 0, 0, w, h))
    /\ \E i \in 1..Len(detections), j \in 1..Len(detections) :
          i < j /\ detections[i][2] = detections[j][2]
    /\ \E i \in 1..Len(detections), j \in 1..Len(detections) :
          i < j /\ detections[i][2] < detections[j][2]
                /\ detections[i][1] > detections[j][1]
    /\ Len(detections) < Cardinality(Placements)

---------------------------------------------------------------------------
(* C10: every rectangle drawn has top-left (x, y) of a Detection and       *)
(* bottom-right (x + w, y + h) with x + w <= W_img and y + h <= H_img, and *)
(* drawing leaves the grayscale image and the Score Map as they were.      *)
C10_RectanglesInside ==
    /\ \A k \in 1..Len(Drawn) :
          /\ Drawn[k][1] = detections[k]
          /\ Drawn[k][2] = <<Drawn[k][1][1] + w, Drawn[k][1][2] + h>>
          /\ Drawn[k][2][1] <= Cols(img_gray)
          /\ Drawn[k][2][2] <= Rows(img_gray)
    /\ img_gray # None => img_gray = cvtColor(imgFile)
    /\ res # None => res = matchTemplate(img_gray, template)

====
